---- MODULE Spec2Model ----
(***************************************************************************)
(* One LiveKit voice session of the Prepwise interviewer                   *)
(* (agents/livekit_interviewer.py): SessionState, the three function tools *)
(* of InterviewAgent, the Firestore documents they write and the outbound  *)
(* call to /api/agent/generate.                                            *)
(*                                                                         *)
(* Python values: None is the string "None"; a str used as an identifier   *)
(* or a field is a TLA+ string; tech_stack, which the code splits and      *)
(* strips, is a sequence of one-character strings; a dict is a record, a   *)
(* Firestore document is a function from field names to values.            *)
(***************************************************************************)
EXTENDS Integers, Sequences, FiniteSets, TLC

\* ------------------------------------------------------------------ bounds

\* store writes (each takes one server timestamp) a session may perform
MaxWrites == 2
\* outbound calls to the generation endpoint a session may perform
MaxPosts == 2
\* participants of a room whose metadata is looked at
MaxParticipants == 2
\* length of the tech_stack arguments that are enumerated in full
MaxTechLen == 4

\* ------------------------------------------------------- values and inputs

None == "None"

\* Python truthiness of an Optional[str]: None and "" are falsy
Truthy(v) == v # None /\ v # ""

\* values the resolved metadata may carry under "userId" / "interviewId"
\* (None: the key is absent, so dict.get returns None)
MetaUserIds == {None, "", "u1"}
MetaInterviewIds == {None, "", "iv1"}
\* values under "mode" (None: the key is absent)
MetaModes == {None, "create", "conduct"}

\* identifiers collection("interviews").document() can generate
AutoIds == {"auto1", "auto2"}

\* arguments the driver passes to store_user_details ("" is a blank argument)
StoreInputs ==
    { [role |-> "Backend", level |-> "", tech_stack |-> <<"G", "o", ",", " ", "P", "g">>,
       interview_type |-> "technical", question_count |-> 5],
      [role |-> "", level |-> "Senior", tech_stack |-> <<"R", ",", " ", ",", "T", " ">>,
       interview_type |-> "technical", question_count |-> 5],
      [role |-> "Backend", level |-> "Senior", tech_stack |-> <<"G", "o", ",", " ", "P", "g">>,
       interview_type |-> "mixed", question_count |-> 7] }
RequestUserIds == {"", "u9"}

\* "React, Node, , TypeScript "
ExampleTechStack ==
    <<"R", "e", "a", "c", "t", ",", " ", "N", "o", "d", "e", ",", " ", ",", " ",
      "T", "y", "p", "e", "S", "c", "r", "i", "p", "t", " ">>

\* tech_stack arguments: every text over two letters, the comma and the blank
\* up to MaxTechLen characters, and the example
TechInputs ==
    UNION { [1..n -> {"a", "b", ",", " "}] : n \in 0..MaxTechLen }
        \cup {ExampleTechStack}

\* no tech stack fixed in advance: each call draws its own arguments
NoTechStack == <<>>
Questions == {"q1"}
AnswerTexts == {"a1", "a2"}
SequenceNos == {1, 3}

\* what the generation endpoint can answer
HttpResponses ==
    { [status |-> 200, body |-> ""],
      [status |-> 200, body |-> "{\"success\":true}"],
      [status |-> 399, body |-> "oops"],
      [status |-> 400, body |-> "oops"],
      [status |-> 500, body |-> "down"] }

\* ------------------------------------------------------------- str helpers

\* str.strip(): leading and trailing whitespace removed
IsSpace(c) == c \in {" ", "\t", "\n"}

RECURSIVE LStrip(_)
LStrip(s) ==
    IF s # <<>> /\ IsSpace(Head(s)) THEN LStrip(Tail(s)) ELSE s

RECURSIVE RStrip(_)
RStrip(s) ==
    IF s # <<>> /\ IsSpace(s[Len(s)]) THEN RStrip(SubSeq(s, 1, Len(s) - 1)) ELSE s

\* str.lstrip(): whitespace that trails is kept
StripLeftOnly(s) == LStrip(s)

Strip(s) == RStrip(LStrip(s))

\* str.split(","): the pieces between commas, empty pieces included
RECURSIVE SplitComma(_)
SplitComma(s) ==
    IF \A i \in 1..Len(s) : s[i] # ","
    THEN <<s>>
    ELSE LET i == CHOOSE k \in 1..Len(s) :
                      s[k] = "," /\ \A j \in 1..(k - 1) : s[j] # ","
         IN  <<SubSeq(s, 1, i - 1)>> \o SplitComma(SubSeq(s, i + 1, Len(s)))

\* [item.strip() for item in items if item.strip()]
RECURSIVE StripNonEmpty(_)
StripNonEmpty(items) ==
    IF items = <<>> THEN <<>>
    ELSE IF Strip(Head(items)) # <<>>
         THEN <<Strip(Head(items))>> \o StripNonEmpty(Tail(items))
         ELSE StripNonEmpty(Tail(items))

TechValues(tech_stack) == StripNonEmpty(SplitComma(tech_stack))

\* ------------------------------------------------------------------- state

VARIABLES
    room,                    \* ctx.room: its metadata and its participants' metadata
    given_tech_stack,        \* the tech stack the candidate gave, where the driver
                             \* passes one and the same to store_user_details
    room_metadata,           \* InterviewAgent.room_metadata (the resolved metadata)
    mode,                    \* SessionState.mode
    interview_id,            \* SessionState.interview_id
    user_id,                 \* SessionState.user_id
    metadata_complete,       \* SessionState.metadata_complete
    questions_generated,     \* SessionState.questions_generated
    current_question_index,  \* SessionState.current_question_index
    question_list,           \* SessionState.question_list
    interviews,              \* Firestore collection "interviews": id -> document
    answers,                 \* sub-collections "answers": <<id, doc id>> -> document
    now,                     \* the store's clock, source of SERVER_TIMESTAMP
    posts,                   \* number of posts made to /api/agent/generate
    request,                 \* JSON body of the post of the call being served
    response,                \* what the post of the call being served came back with
    response_payload,        \* request_question_generation's local response_payload
    entered,                 \* on_enter has run
    replies,                 \* number of session.generate_reply() calls
    said,                    \* messages passed to session.say(), in order
    session_closed,          \* session.aclose() has been called
    pc,                      \* position of the session's code: in entrypoint, idle,
                             \* or inside request_question_generation
    result                   \* how the last finished tool call ended

sessionState ==
    <<mode, interview_id, user_id, metadata_complete, questions_generated,
      current_question_index, question_list>>

store == <<interviews, answers, now>>

endpoint == <<posts, request, response>>

vars ==
    <<room, given_tech_stack,
      room_metadata, mode, interview_id, user_id, metadata_complete,
      questions_generated, current_question_index, question_list, interviews,
      answers, now, posts, request, response, response_payload, entered, replies,
      said, session_closed, pc, result>>

\* ------------------------------------------------------ values of the model

NoResult == [tool |-> "none", kind |-> "none", value |-> <<>>]
NoPayload == [kind |-> "none", value |-> <<>>]
NoRequest ==
    [type |-> "", role |-> "", level |-> "", techstack |-> "", amount |-> 0,
     userid |-> ""]
NoResponse == [kind |-> "none", exc |-> None, status |-> 0, body |-> ""]

Exception(type, msg, status, body) ==
    [type |-> type, msg |-> msg, status |-> status, body |-> body]

Raised(tool, exc) == [tool |-> tool, kind |-> "raise", value |-> exc]
Returned(tool, value) == [tool |-> tool, kind |-> "return", value |-> value]

\* the document another writer (the web application) may have left under the
\* metadata's interviewId before the session: it carries a field this agent
\* never writes, and when it has been finalized also the questions of the
\* interview
ExistingInterviews ==
    { [role |-> "Frontend", level |-> "Junior", type |-> "behavioral",
       techstack |-> <<<<"J", "s">>>>, questionCount |-> 3, userId |-> "u1",
       finalized |-> FALSE, createdAt |-> 0, coverImage |-> "cover.png"],
      [role |-> "Frontend", level |-> "Junior", type |-> "behavioral",
       techstack |-> <<<<"J", "s">>>>, questionCount |-> 3, userId |-> "u1",
       finalized |-> TRUE, createdAt |-> 0, coverImage |-> "cover.png",
       questions |-> <<"q1">>] }

\* ------------------------------------------------------- _session_metadata

\* texts a room or a participant may carry as metadata (None: no metadata)
RawTexts ==
    {None, "", "not json", "{}", "[1]",
     "{\"mode\":\"conduct\",\"interviewId\":\"abc\"}", "{\"userId\":\"u1\"}"}

Rooms ==
    { [metadata |-> m, participants |-> ps] :
        m \in RawTexts,
        ps \in UNION { [1..n -> RawTexts] : n \in 0..MaxParticipants } }

\* a room nobody has looked at
NoRoom == [metadata |-> None, participants |-> <<>>]

EmptyDict == <<>>

\* json.loads(text) for the texts of the model: it raises JSONDecodeError
\* (err), or returns a dict or a value of another type
JsonLoadsText(text) ==
    CASE text = "{}" ->
           [err |-> FALSE, isdict |-> TRUE, value |-> EmptyDict]
      [] text = "[1]" ->
           [err |-> FALSE, isdict |-> FALSE, value |-> <<1>>]
      [] text = "{\"mode\":\"conduct\",\"interviewId\":\"abc\"}" ->
           [err |-> FALSE, isdict |-> TRUE,
            value |-> [mode |-> "conduct", interviewId |-> "abc"]]
      [] text = "{\"userId\":\"u1\"}" ->
           [err |-> FALSE, isdict |-> TRUE, value |-> [userId |-> "u1"]]
      [] OTHER ->
           [err |-> TRUE, isdict |-> FALSE, value |-> EmptyDict]

\* a test that takes any dict, the empty one too
IsDictOnly(data) == ~data.err /\ data.isdict

\* isinstance(data, dict) and data, where json.loads did not raise
IsNonEmptyDict(data) == ~data.err /\ data.isdict /\ DOMAIN data.value # {}

\* the metadata that are truthy, in order: sources.append(meta) if meta
RECURSIVE TruthyOnly(_)
TruthyOnly(metas) ==
    IF metas = <<>> THEN <<>>
    ELSE IF Truthy(Head(metas))
         THEN <<Head(metas)>> \o TruthyOnly(Tail(metas))
         ELSE TruthyOnly(Tail(metas))

\* for raw in sources: the first json.loads(raw or "{}") that is a non-empty
\* dict is returned, a JSONDecodeError skips the source; {} when none is
RECURSIVE FirstObject(_)
FirstObject(sources) ==
    IF sources = <<>> THEN EmptyDict
    ELSE LET raw == Head(sources)
             data == JsonLoadsText(IF Truthy(raw) THEN raw ELSE "{}")
         IN  IF IsNonEmptyDict(data) THEN data.value
             ELSE FirstObject(Tail(sources))

session_metadata(r) ==
    FirstObject(TruthyOnly(<<r.metadata>>) \o TruthyOnly(r.participants))

\* ------------------------------------------------------------ construction

\* entrypoint: SessionState(mode=metadata.get("mode", "create")) and
\* InterviewAgent(session_state, room_metadata=metadata); every other field of
\* SessionState takes its dataclass default
Init ==
    /\ room = NoRoom
    /\ given_tech_stack = NoTechStack
    /\ room_metadata \in
           [userId : MetaUserIds, interviewId : MetaInterviewIds, mode : MetaModes]
    /\ mode = IF room_metadata.mode = None THEN "create" ELSE room_metadata.mode
    /\ interview_id = None
    /\ user_id = None
    /\ metadata_complete = FALSE
    /\ questions_generated = FALSE
    /\ current_question_index = 0
    /\ question_list = <<>>
    /\ interviews \in
           {<<>>} \cup { room_metadata.interviewId :> d :
                            d \in IF Truthy(room_metadata.interviewId)
                                  THEN ExistingInterviews ELSE {} }
    /\ answers = <<>>
    /\ now = 0
    /\ posts = 0
    /\ request = NoRequest
    /\ response = NoResponse
    /\ response_payload = NoPayload
    /\ entered = FALSE
    /\ replies = 0
    /\ said = <<>>
    /\ session_closed = FALSE
    /\ pc = "idle"
    /\ result = NoResult

\* entrypoint before the session exists: the room is given and its metadata
\* not yet resolved
ResolverInit ==
    /\ room \in Rooms
    /\ given_tech_stack = NoTechStack
    /\ room_metadata = EmptyDict
    /\ mode = "create"
    /\ interview_id = None
    /\ user_id = None
    /\ metadata_complete = FALSE
    /\ questions_generated = FALSE
    /\ current_question_index = 0
    /\ question_list = <<>>
    /\ interviews = <<>>
    /\ answers = <<>>
    /\ now = 0
    /\ posts = 0
    /\ request = NoRequest
    /\ response = NoResponse
    /\ response_payload = NoPayload
    /\ entered = FALSE
    /\ replies = 0
    /\ said = <<>>
    /\ session_closed = FALSE
    /\ pc = "entrypoint"
    /\ result = NoResult

\* metadata = _session_metadata(ctx.room);
\* session_state = SessionState(mode=metadata.get("mode", "create"))
entrypoint ==
    /\ pc = "entrypoint"
    /\ room_metadata' = session_metadata(room)
    /\ mode' = IF "mode" \in DOMAIN room_metadata'
               THEN room_metadata'.mode ELSE "create"
    /\ pc' = "idle"
    /\ UNCHANGED <<room, given_tech_stack,
                   interview_id, user_id, metadata_complete,
                   questions_generated, current_question_index, question_list,
                   interviews, answers, now, posts, request, response,
                   response_payload, entered, replies, said, session_closed,
                   result>>

\* ---------------------------------------------------------------- on_enter

\* metadata.get(key): None when the key is absent
DictGet(dict, key) == IF key \in DOMAIN dict THEN dict[key] ELSE None

\* metadata.get("mode", self.state.mode): the default only when absent
on_enter ==
    /\ ~entered
    /\ entered' = TRUE
    /\ user_id' = DictGet(room_metadata, "userId")
    /\ interview_id' = DictGet(room_metadata, "interviewId")
    /\ mode' = IF DictGet(room_metadata, "mode") = None
               THEN mode ELSE room_metadata.mode
    /\ IF mode' = "conduct" /\ ~Truthy(interview_id')
       THEN replies' = replies          \* logger.error(...); return
       ELSE replies' = replies + 1      \* await self.session.generate_reply()
    /\ UNCHANGED <<room, given_tech_stack,
                   room_metadata, metadata_complete, questions_generated,
                   current_question_index, question_list, interviews, answers,
                   now, posts, request, response, response_payload, said,
                   session_closed, pc, result>>

\* ------------------------------------------------------------ tool dispatch

\* The session serves a function tool of its agent once the agent has entered,
\* until the session is closed, one call at a time.
ToolCallable == entered /\ ~session_closed /\ pc = "idle"

\* ------------------------------------------------------ store_user_details

\* a check for None alone, which an empty userId passes
UserIdIsNone == user_id = None

\* if not self.state.user_id
UserIdMissing == ~Truthy(user_id)

\* a reference that is always a new document
DocRefIdAlwaysNew(fresh) == fresh

\* doc_ref.id for document(self.state.interview_id) if self.state.interview_id
\* else document(), whose generated identifier is fresh (identifiers are single
\* path segments: document(x).id is x)
DocRefId(fresh) == IF Truthy(interview_id) THEN interview_id ELSE fresh

\* a payload that names no owner
PayloadAnonymous(role, level, tech_stack, interview_type, question_count) ==
    [role |-> role,
     level |-> level,
     type |-> interview_type,
     techstack |-> TechValues(tech_stack),
     questionCount |-> question_count,
     userId |-> None,
     finalized |-> FALSE,
     createdAt |-> now + 1]

\* a payload without the finalized field
PayloadUnflagged(role, level, tech_stack, interview_type, question_count) ==
    [role |-> role,
     level |-> level,
     type |-> interview_type,
     techstack |-> TechValues(tech_stack),
     questionCount |-> question_count,
     userId |-> user_id,
     createdAt |-> now + 1]

InterviewPayload(role, level, tech_stack, interview_type, question_count) ==
    [role |-> role,
     level |-> level,
     type |-> interview_type,
     techstack |-> TechValues(tech_stack),
     questionCount |-> question_count,
     userId |-> user_id,
     finalized |-> FALSE,
     createdAt |-> now + 1]

\* set(payload) without merge=True: the document becomes the payload
SetClobber(docs, id, payload) ==
    IF id \in DOMAIN docs
    THEN [docs EXCEPT ![id] = payload]
    ELSE (id :> payload) @@ docs

\* DocumentReference.set(payload, merge=True): the payload's fields are written,
\* every other field of an existing document stays
SetMerge(docs, id, payload) ==
    IF id \in DOMAIN docs
    THEN [docs EXCEPT ![id] =
              [f \in DOMAIN docs[id] \cup DOMAIN payload |->
                   IF f \in DOMAIN payload THEN payload[f] ELSE docs[id][f]]]
    ELSE (id :> payload) @@ docs

\* DocumentReference.set(payload): the document becomes the payload
SetReplace(docs, id, payload) ==
    IF id \in DOMAIN docs
    THEN [docs EXCEPT ![id] = payload]
    ELSE (id :> payload) @@ docs

\* a handler that writes and returns the identifier without adopting it
StoreWrittenNotAdopted(id, payload) ==
    /\ interviews' = SetMerge(interviews, id, payload)
    /\ now' = now + 1
    /\ interview_id' = interview_id
    /\ metadata_complete' = TRUE
    /\ result' = Returned("store_user_details", [interviewId |-> id])

\* doc_ref.set(payload, merge=True) went through: the identifier of doc_ref is
\* adopted, metadata_complete set and {"interviewId": doc_ref.id} returned
StoreWritten(id, payload) ==
    /\ interviews' = SetMerge(interviews, id, payload)
    /\ now' = now + 1
    /\ interview_id' = id
    /\ metadata_complete' = TRUE
    /\ result' = Returned("store_user_details", [interviewId |-> id])

\* a handler that sets metadata_complete before the write it then fails at
StoreFailedAfterFlag ==
    /\ result' = Raised("store_user_details",
           Exception("GoogleAPICallError", "set failed", 0, ""))
    /\ metadata_complete' = TRUE
    /\ UNCHANGED <<interview_id, interviews, now>>

\* doc_ref.set(payload, merge=True) raises: the handler ends there, before the
\* two assignments to self.state
StoreFailed ==
    /\ result' = Raised("store_user_details",
           Exception("GoogleAPICallError", "set failed", 0, ""))
    /\ UNCHANGED <<interview_id, metadata_complete, interviews, now>>

store_user_details(role, level, tech_stack, interview_type, question_count) ==
    /\ ToolCallable
    /\ \/ \* raise ValueError("Missing user identity in room metadata")
          /\ UserIdMissing
          /\ result' = Raised("store_user_details",
                 Exception("ValueError", "Missing user identity in room metadata",
                           0, ""))
          /\ UNCHANGED <<interview_id, metadata_complete, interviews, now>>
       \/ \* the write fails
          /\ ~UserIdMissing
          /\ StoreFailed
       \/ \* the write succeeds
          /\ ~UserIdMissing
          /\ now < MaxWrites
          /\ \E fresh \in AutoIds \ DOMAIN interviews :
               StoreWritten(DocRefId(fresh),
                            InterviewPayload(role, level, tech_stack,
                                             interview_type, question_count))
    /\ UNCHANGED <<room, given_tech_stack,
                   room_metadata, mode, user_id, questions_generated,
                   current_question_index, question_list, answers, posts, request,
                   response, response_payload, entered, replies, said,
                   session_closed, pc>>

\* ------------------------------------------------------------- save_answer

AnswerPayload(question, answer, sequence) ==
    [question |-> question,
     answer |-> answer,
     sequence |-> sequence,
     createdAt |-> now + 1]

\* a reference that is a new document on every call (an append)
AnswerRefAppend(id, sequence) == <<id, ToString(100 + now)>>

\* collection("interviews").document(id).collection("answers").document(str(sequence))
AnswerRef(id, sequence) == <<id, ToString(sequence)>>

\* a check for None alone, which an empty interview_id passes
InterviewIdIsNone == interview_id = None

\* if not self.state.interview_id
InterviewIdMissing == ~Truthy(interview_id)

save_answer(question, answer, sequence) ==
    /\ ToolCallable
    /\ \/ \* raise ValueError("Interview ID missing; nothing to save")
          /\ InterviewIdMissing
          /\ result' = Raised("save_answer",
                 Exception("ValueError", "Interview ID missing; nothing to save",
                           0, ""))
          /\ UNCHANGED <<answers, now>>
       \/ \* doc_ref.set(payload) raises
          /\ ~InterviewIdMissing
          /\ result' = Raised("save_answer",
                 Exception("GoogleAPICallError", "set failed", 0, ""))
          /\ UNCHANGED <<answers, now>>
       \/ /\ ~InterviewIdMissing
          /\ now < MaxWrites
          /\ answers' = SetReplace(answers, AnswerRef(interview_id, sequence),
                                   AnswerPayload(question, answer, sequence))
          /\ now' = now + 1
          /\ result' = Returned("save_answer", [status |-> "stored"])
    /\ UNCHANGED <<room, given_tech_stack,
                   room_metadata, mode, interview_id, user_id, metadata_complete,
                   questions_generated, current_question_index, question_list,
                   interviews, posts, request, response, response_payload, entered,
                   replies, said, session_closed, pc>>

\* --------------------------------------------- request_question_generation

\* "userid": userid or (self.state.user_id or "")
GenerationPayload(type, role, level, techstack, amount, userid) ==
    [type |-> type,
     role |-> role,
     level |-> level,
     techstack |-> techstack,
     amount |-> amount,
     userid |-> IF userid # "" THEN userid
                ELSE IF Truthy(user_id) THEN user_id ELSE ""]

\* exceptions the post can end with: a connection failure and a socket-level
\* timeout are aiohttp.ClientError subclasses; the expiry of
\* ClientTimeout(total=30) is asyncio.TimeoutError, which is not one
HttpExceptions == {"ClientConnectorError", "ServerTimeoutError", "TimeoutError"}

\* except aiohttp.ClientError as exc
IsClientError(exc) == exc \in {"ClientConnectorError", "ServerTimeoutError"}

\* a check that lets client errors (4xx) through
StatusRejectedServerOnly(status) == status >= 500

\* if response.status >= 400
StatusRejected(status) == status >= 400

\* json.loads(body) for the bodies of the model; JSONDecodeError otherwise
IsJson(body) == body = "{\"success\":true}"
JsonLoads(body) == [success |-> TRUE]

\* json.loads(body) if body else {"success": True}; {"raw": body} on JSONDecodeError
ParseBody(body) ==
    IF body = "" THEN [kind |-> "json", value |-> [success |-> TRUE]]
    ELSE IF IsJson(body) THEN [kind |-> "json", value |-> JsonLoads(body)]
    ELSE [kind |-> "raw", value |-> [raw |-> body]]

final_message ==
    "Great! I have generated your interview. You will now be redirected to begin."

\* the handler up to its first suspension: the payload is built and posted
request_question_generation(type, role, level, techstack, amount, userid) ==
    /\ ToolCallable
    /\ posts < MaxPosts
    /\ request' = GenerationPayload(type, role, level, techstack, amount, userid)
    /\ posts' = posts + 1
    /\ pc' = "post"
    /\ UNCHANGED <<room, given_tech_stack,
                   room_metadata, mode, interview_id, user_id, metadata_complete,
                   questions_generated, current_question_index, question_list,
                   interviews, answers, now, response,
                   response_payload, entered, replies, said, session_closed,
                   result>>

\* async with http_session.post(endpoint, json=payload) as response: the
\* endpoint answers with a status and a body
endpoint_answers(status, body) ==
    /\ pc = "post"
    /\ response' = [kind |-> "response", exc |-> None, status |-> status,
                    body |-> body]
    /\ pc' = "response"
    /\ UNCHANGED <<room, given_tech_stack,
                   room_metadata, mode, interview_id, user_id, metadata_complete,
                   questions_generated, current_question_index, question_list,
                   interviews, answers, now, posts, request, response_payload, entered,
                   replies, said, session_closed, result>>

\* or the post raises exc instead
endpoint_raises(exc) ==
    /\ pc = "post"
    /\ response' = [kind |-> "exception", exc |-> exc, status |-> 0, body |-> ""]
    /\ pc' = "response"
    /\ UNCHANGED <<room, given_tech_stack,
                   room_metadata, mode, interview_id, user_id, metadata_complete,
                   questions_generated, current_question_index, question_list,
                   interviews, answers, now, posts, request, response_payload, entered,
                   replies, said, session_closed, result>>

\* the handler resumes: an exception of the post is wrapped when it is a
\* ClientError and propagates as it is otherwise; a status >= 400 raises; else
\* the body is parsed and SessionState updated
generation_resume ==
    /\ pc = "response"
    /\ IF response.kind = "exception"
       THEN /\ result' = Raised("request_question_generation",
                    IF IsClientError(response.exc)
                    THEN Exception("RuntimeError",
                                   "Failed to call /api/agent/generate", 0, "")
                    ELSE Exception(response.exc, "", 0, ""))
            /\ response' = NoResponse
            /\ request' = NoRequest
            /\ pc' = "idle"
            /\ UNCHANGED <<questions_generated, question_list, response_payload>>
       ELSE IF StatusRejected(response.status)
       THEN /\ result' = Raised("request_question_generation",
                    Exception("RuntimeError", "Interview generation failed",
                              response.status, response.body))
            /\ response' = NoResponse
            /\ request' = NoRequest
            /\ pc' = "idle"
            /\ UNCHANGED <<questions_generated, question_list, response_payload>>
       ELSE /\ response_payload' = ParseBody(response.body)
            /\ questions_generated' = TRUE
            /\ question_list' = <<>>
            /\ pc' = "say"
            /\ UNCHANGED <<result, request, response>>
    /\ UNCHANGED <<room, given_tech_stack,
                   room_metadata, mode, interview_id, user_id, metadata_complete,
                   current_question_index, interviews, answers, now, posts,
                   entered, replies, said, session_closed>>

\* the announcement made while the post is still pending
generation_say_early ==
    /\ pc \in {"post", "say"}
    /\ said' = Append(said, final_message)
    /\ pc' = IF pc = "say" THEN "aclose" ELSE pc
    /\ Len(said) < MaxPosts
    /\ UNCHANGED <<room, given_tech_stack,
                   room_metadata, mode, interview_id, user_id, metadata_complete,
                   questions_generated, current_question_index, question_list,
                   interviews, answers, now, posts, request, response,
                   response_payload, entered, replies, session_closed, result>>

\* a handler that closes the session without the announcement
generation_say_silent ==
    /\ pc = "say"
    /\ pc' = "aclose"
    /\ UNCHANGED <<room, given_tech_stack,
                   room_metadata, mode, interview_id, user_id, metadata_complete,
                   questions_generated, current_question_index, question_list,
                   interviews, answers, now, posts, request, response,
                   response_payload, entered, replies, said, session_closed,
                   result>>

\* await self.session.say(final_message)
generation_say ==
    /\ pc = "say"
    /\ said' = Append(said, final_message)
    /\ pc' = "aclose"
    /\ UNCHANGED <<room, given_tech_stack,
                   room_metadata, mode, interview_id, user_id, metadata_complete,
                   questions_generated, current_question_index, question_list,
                   interviews, answers, now, posts, request, response,
                   response_payload, entered, replies, session_closed,
                   result>>

\* a handler that returns without closing the session
generation_aclose_skipped ==
    /\ pc = "aclose"
    /\ pc' = "return"
    /\ UNCHANGED <<room, given_tech_stack,
                   room_metadata, mode, interview_id, user_id, metadata_complete,
                   questions_generated, current_question_index, question_list,
                   interviews, answers, now, posts, request, response,
                   response_payload, entered, replies, said, session_closed,
                   result>>

\* await self.session.aclose()
generation_aclose ==
    /\ pc = "aclose"
    /\ session_closed' = TRUE
    /\ pc' = "return"
    /\ UNCHANGED <<room, given_tech_stack,
                   room_metadata, mode, interview_id, user_id, metadata_complete,
                   questions_generated, current_question_index, question_list,
                   interviews, answers, now, posts, request, response,
                   response_payload, entered, replies, said, result>>

\* a handler that, having triggered the generation, turns the session to the
\* conduct mode
generation_return_conducts ==
    /\ pc = "return"
    /\ result' = Returned("request_question_generation",
           [status |-> "triggered", response |-> response_payload])
    /\ response_payload' = NoPayload
    /\ response' = NoResponse
    /\ request' = NoRequest
    /\ pc' = "idle"
    /\ mode' = "conduct"
    /\ UNCHANGED <<room, given_tech_stack,
                   room_metadata, interview_id, user_id, metadata_complete,
                   questions_generated, current_question_index, question_list,
                   interviews, answers, now, posts, entered, replies, said,
                   session_closed>>

\* return {"status": "triggered", "response": response_payload}
generation_return ==
    /\ pc = "return"
    /\ result' = Returned("request_question_generation",
           [status |-> "triggered", response |-> response_payload])
    /\ response_payload' = NoPayload
    /\ response' = NoResponse
    /\ request' = NoRequest
    /\ pc' = "idle"
    /\ UNCHANGED <<room, given_tech_stack,
                   room_metadata, mode, interview_id, user_id, metadata_complete,
                   questions_generated, current_question_index, question_list,
                   interviews, answers, now, posts, entered, replies, said,
                   session_closed>>

\* ----------------------------------------------------------- specification

Next ==
    \/ on_enter
    \/ \E a \in StoreInputs :
         store_user_details(a.role, a.level, a.tech_stack, a.interview_type,
                            a.question_count)
    \/ \E userid \in RequestUserIds :
         request_question_generation("technical", "Backend", "Senior", "Go, Pg",
                                     5, userid)
    \/ \E r \in HttpResponses : endpoint_answers(r.status, r.body)
    \/ \E exc \in HttpExceptions : endpoint_raises(exc)
    \/ generation_resume
    \/ generation_say
    \/ generation_aclose
    \/ generation_return
    \/ \E question \in Questions, answer \in AnswerTexts, sequence \in SequenceNos :
         save_answer(question, answer, sequence)

Spec == Init /\ [][Next]_vars

\* a session whose driver passes the given tech stack, for every tech stack of
\* the bounds
TechInit ==
    /\ room = NoRoom
    /\ given_tech_stack \in TechInputs
    /\ room_metadata \in
           { [userId |-> u, interviewId |-> i, mode |-> None] :
               u \in {None, "u1"}, i \in {None, "iv1"} }
    /\ mode = "create"
    /\ interview_id = None
    /\ user_id = None
    /\ metadata_complete = FALSE
    /\ questions_generated = FALSE
    /\ current_question_index = 0
    /\ question_list = <<>>
    /\ interviews = <<>>
    /\ answers = <<>>
    /\ now = 0
    /\ posts = 0
    /\ request = NoRequest
    /\ response = NoResponse
    /\ response_payload = NoPayload
    /\ entered = FALSE
    /\ replies = 0
    /\ said = <<>>
    /\ session_closed = FALSE
    /\ pc = "idle"
    /\ result = NoResult

TechNext ==
    \/ on_enter
    \/ store_user_details("Backend", "Senior", given_tech_stack, "technical", 5)

TechSpec == TechInit /\ [][TechNext]_vars

\* the resolution of the metadata alone, for every room of the bounds
ResolverNext == entrypoint

ResolverSpec == ResolverInit /\ [][ResolverNext]_vars

\* ------------------------------------------------------------------ claims

GenerationTool == "request_question_generation"

\* the endpoint's answer in flight is a response with a status below 400
Accepted == response.kind = "response" /\ response.status < 400

\* C1: in every reachable state, questionsGenerated = true implies that
\* metadataComplete is true and interviewId is set.
C1_GeneratedOnlyAfterMetadata ==
    questions_generated => (metadata_complete /\ Truthy(interview_id))

\* C2: a session whose mode is conduct and whose metadata carries no
\* interviewId is aborted at setup: it generates no reply, and no tool call has
\* any effect on SessionState, the store or the generation endpoint.
ConductWithoutId ==
    entered /\ mode = "conduct" /\ ~Truthy(room_metadata.interviewId)

C2_ConductWithoutIdAborts ==
    ConductWithoutId =>
        /\ replies = 0
        /\ interview_id = room_metadata.interviewId
        /\ ~metadata_complete
        /\ ~questions_generated
        /\ now = 0
        /\ posts = 0

\* C3: termination is one-way: once request_question_generation has closed the
\* session (or returned "triggered"), the session stays terminated and no step
\* touches SessionState, the store or the generation endpoint, and the only
\* result still delivered is that call's own return.
Terminated ==
    \/ session_closed
    \/ (result.tool = GenerationTool /\ result.kind = "return")

C4_RejectedLeavesState ==
    [][/\ (questions_generated' /\ ~questions_generated) => Accepted
       /\ (pc' \in {"post", "response"}) =>
              UNCHANGED <<questions_generated, question_list, session_closed>>
       /\ (pc = "response" /\ response.kind = "response" /\ response.status >= 400) =>
              /\ result' = Raised(GenerationTool,
                     Exception("RuntimeError", "Interview generation failed",
                               response.status, response.body))
              /\ pc' = "idle"
              /\ UNCHANGED <<questions_generated, question_list, session_closed,
                             said>>
      ]_vars

C4_Witness ==
    /\ result.tool = GenerationTool
    /\ result.kind = "raise"
    /\ result.value.msg = "Interview generation failed"
    /\ result.value.status = 500
    /\ result.value.body = "down"
    /\ ~questions_generated
    /\ ~session_closed

\* C5: the closing announcement is made, and the session closed, only while an
\* accepted response (status < 400) of the outbound call is at hand, and the
\* close comes after the announcement.
C5_AnnounceThenCloseAfterAccepted ==
    [][/\ (said' # said) =>
              /\ Accepted
              /\ questions_generated
              /\ ~session_closed
              /\ said' = Append(said, final_message)
       /\ (session_closed' # session_closed) =>
              /\ Accepted
              /\ session_closed'
              /\ said = <<final_message>>
              /\ said' = said
      ]_vars

C5_Witness ==
    /\ session_closed
    /\ said = <<final_message>>
    /\ questions_generated
    /\ posts = 2

\* C6: when the outbound call exceeds its total timeout (asyncio.TimeoutError),
\* request_question_generation raises the same wrapped error as for a
\* connection failure, questionsGenerated stays as it was, nothing is announced
\* and the session is not closed.
C6_TimeoutIsUnreachable ==
    [][(pc = "response" /\ response.kind = "exception"
           /\ response.exc = "TimeoutError") =>
          /\ result' = Raised(GenerationTool,
                 Exception("RuntimeError", "Failed to call /api/agent/generate",
                           0, ""))
          /\ UNCHANGED <<questions_generated, said, session_closed>>
      ]_vars

\* C7: once interviewId holds a value, no step of the session changes it.
C7_InterviewIdImmutable ==
    [][Truthy(interview_id) => interview_id' = interview_id]_vars

C7_Witness ==
    /\ interview_id \in AutoIds
    /\ now = 2
    /\ DOMAIN interviews = {interview_id}
    /\ interviews[interview_id].createdAt = 2
    /\ result.tool = "store_user_details"
    /\ result.kind = "return"

\* a step in which store_user_details returns: the store took a write and the
\* result is that tool's return
StoreReturns ==
    /\ now' = now + 1
    /\ result'.tool = "store_user_details"
    /\ result'.kind = "return"

\* C8: a successful store_user_details writes the record at the assigned
\* interviewId when one is set, and otherwise under a new identifier, which it
\* adopts; afterwards interviewId is set, metadataComplete is true, and the
\* returned identifier is SessionState.interviewId and the key of the one
\* record written.
C8_StoreWritesAtResolvedId ==
    [][StoreReturns =>
          LET id == result'.value.interviewId IN
          /\ Truthy(interview_id) => id = interview_id
          /\ ~Truthy(interview_id) => id \notin DOMAIN interviews
          /\ Truthy(id)
          /\ interview_id' = id
          /\ metadata_complete'
          /\ id \in DOMAIN interviews'
          /\ interviews'[id].createdAt = now'
          /\ \A k \in (DOMAIN interviews \cup DOMAIN interviews') \ {id} :
                 /\ k \in DOMAIN interviews
                 /\ k \in DOMAIN interviews'
                 /\ interviews'[k] = interviews[k]
          /\ answers' = answers
      ]_vars

C8_Witness ==
    /\ result.tool = "store_user_details"
    /\ result.kind = "return"
    /\ result.value.interviewId \in AutoIds
    /\ interview_id = result.value.interviewId
    /\ room_metadata.interviewId = None
    /\ metadata_complete
    /\ interview_id \in DOMAIN interviews

IdentityMissing ==
    Exception("ValueError", "Missing user identity in room metadata", 0, "")

\* C9: while userId is absent or empty, store_user_details fails with the
\* missing-identity ValueError, no step writes an Interview record, and
\* interviewId and metadataComplete keep their values.
C9_IdentityMissing ==
    [][(entered /\ ~Truthy(user_id)) =>
          /\ interviews' = interviews
          /\ interview_id' = interview_id
          /\ metadata_complete' = metadata_complete
          /\ (result'.tool = "store_user_details" =>
                  result' = Raised("store_user_details", IdentityMissing))
      ]_vars

C9_Witness ==
    /\ entered
    /\ user_id = ""
    /\ result = Raised("store_user_details", IdentityMissing)
    /\ ~metadata_complete
    /\ now = 0

\* the fields store_user_details puts in its payload
PayloadFields ==
    {"role", "level", "type", "techstack", "questionCount", "userId",
     "finalized", "createdAt"}

\* C10 as stated: when store_user_details is called again on the identifier it
\* stored before, a field of the record for which the second call gives no
\* value (a blank role or level) keeps the value it had before that call.
C10_BlankFieldsKept ==
    [][\A a \in StoreInputs :
          ( /\ store_user_details(a.role, a.level, a.tech_stack,
                                  a.interview_type, a.question_count)
            /\ StoreReturns
            /\ metadata_complete
            /\ interview_id \in DOMAIN interviews ) =>
              /\ (a.role = "" =>
                     interviews'[interview_id].role = interviews[interview_id].role)
              /\ (a.level = "" =>
                     interviews'[interview_id].level = interviews[interview_id].level)
      ]_vars

\* C10 (amended): a store_user_details call on an existing record keeps every
\* field of the record outside the eight payload fields, and sets each of the
\* eight payload fields to what this call computes for it.
C10_MergeKeepsForeignFields ==
    [][(StoreReturns /\ interview_id' \in DOMAIN interviews) =>
          LET old == interviews[interview_id']
              new == interviews'[interview_id']
          IN  /\ DOMAIN new = DOMAIN old \cup PayloadFields
              /\ \A f \in DOMAIN old \ PayloadFields : new[f] = old[f]
              /\ \E a \in StoreInputs :
                    LET p == InterviewPayload(a.role, a.level, a.tech_stack,
                                              a.interview_type, a.question_count)
                    IN  \A f \in PayloadFields : new[f] = p[f]
      ]_vars

C10_Witness ==
    /\ result.tool = "store_user_details"
    /\ result.kind = "return"
    /\ interview_id = "iv1"
    /\ "iv1" \in DOMAIN interviews
    /\ "coverImage" \in DOMAIN interviews["iv1"]
    /\ interviews["iv1"].coverImage = "cover.png"
    /\ interviews["iv1"].role = ""
    /\ interviews["iv1"].level = "Senior"
    /\ interviews["iv1"].createdAt = 2

NoActiveInterview ==
    Exception("ValueError", "Interview ID missing; nothing to save", 0, "")

\* a step in which save_answer returns: the store took a write and the result
\* is that tool's return
AnswerReturns ==
    /\ now' = now + 1
    /\ result'.tool = "save_answer"
    /\ result'.kind = "return"

\* C11: while interviewId is not set, save_answer fails with the
\* missing-interview ValueError and no step writes an Answer record; a
\* save_answer that returns was called with interviewId set, has stored a record
\* under that interview and returns {"status": "stored"}; no Answer record is
\* written by any other step.
C11_NoActiveInterview ==
    [][/\ (entered /\ ~Truthy(interview_id)) =>
              /\ answers' = answers
              /\ (result'.tool = "save_answer" =>
                      result' = Raised("save_answer", NoActiveInterview))
       /\ (result'.tool = "save_answer" /\ result'.kind = "return") =>
              /\ Truthy(interview_id)
              /\ result'.value = [status |-> "stored"]
              /\ \E k \in DOMAIN answers' :
                    /\ k[1] = interview_id
                    /\ answers'[k].createdAt = now'
       /\ (answers' # answers) => AnswerReturns
      ]_vars

C11_Witness ==
    /\ entered
    /\ interview_id = ""
    /\ result = Raised("save_answer", NoActiveInterview)
    /\ answers = <<>>

\* C12: save_answer is an upsert keyed by (interviewId, sequence): the store
\* never holds two Answer records with the same sequence number under one
\* interview, the record written by a call holds that call's question, answer
\* and sequence, and every record with another key is left as it was.
C12_AnswerUpsert ==
    [][/\ \A k1, k2 \in DOMAIN answers' :
              (k1[1] = k2[1] /\ answers'[k1].sequence = answers'[k2].sequence)
                  => k1 = k2
       /\ AnswerReturns =>
              \E q \in Questions, a \in AnswerTexts, n \in SequenceNos :
                 LET k == <<interview_id, ToString(n)>> IN
                 /\ DOMAIN answers' = DOMAIN answers \cup {k}
                 /\ answers'[k] = [question |-> q, answer |-> a, sequence |-> n,
                                   createdAt |-> now']
                 /\ \A o \in DOMAIN answers \ {k} : answers'[o] = answers[o]
      ]_vars

\* sequence 3 was saved twice (both writes of the session), the second time
\* with another text, and one record holds the second text
C12_Witness ==
    /\ now = 2
    /\ ~metadata_complete
    /\ DOMAIN answers = {<<"iv1", "3">>}
    /\ answers[<<"iv1", "3">>].answer = "a2"
    /\ answers[<<"iv1", "3">>].sequence = 3
    /\ answers[<<"iv1", "3">>].createdAt = 2

\* the candidate sources in order: the room's metadata, then each
\* participant's
AllSources == <<room.metadata>> \o room.participants

\* the places of the sources that parse as a non-empty object
QualifyingSources ==
    { i \in 1..Len(AllSources) :
        /\ AllSources[i] # None
        /\ ~JsonLoadsText(AllSources[i]).err
        /\ JsonLoadsText(AllSources[i]).isdict
        /\ JsonLoadsText(AllSources[i]).value # EmptyDict }

\* C13: the resolved metadata is the parsed object of the first source, room
\* first and then the participants in order, that parses as a non-empty
\* object; sources that do not parse, or parse to an empty object or to
\* something that is no object, are skipped; the empty object when none
\* qualifies.
C13_FirstParsableSource ==
    pc = "idle" =>
        IF QualifyingSources = {}
        THEN room_metadata = EmptyDict
        ELSE LET first == CHOOSE i \in QualifyingSources :
                              \A j \in QualifyingSources : i <= j
             IN  room_metadata = JsonLoadsText(AllSources[first]).value

C13_Witness ==
    /\ pc = "idle"
    /\ room.metadata = "not json"
    /\ room.participants =
           <<"{\"mode\":\"conduct\",\"interviewId\":\"abc\"}">>
    /\ room_metadata = [mode |-> "conduct", interviewId |-> "abc"]
    /\ mode = "conduct"

\* the places that open an entry of t: before its first character and at
\* each comma
EntryOpenings(t) == {0} \cup {i \in 1..Len(t) : t[i] = ","}

\* the place that closes the entry opened at b: the next comma or the end
EntryClosing(t, b) ==
    CHOOSE c \in (b + 1)..(Len(t) + 1) :
        /\ c = Len(t) + 1 \/ t[c] = ","
        /\ \A j \in (b + 1)..(c - 1) : t[j] # ","

\* the places of the entry opened at b that hold no whitespace
Inked(t, b) == {i \in (b + 1)..(EntryClosing(t, b) - 1) : ~IsSpace(t[i])}

\* the entry opened at b without its surrounding whitespace
Trimmed(t, b) ==
    LET lo == CHOOSE i \in Inked(t, b) : \A j \in Inked(t, b) : i <= j
        hi == CHOOSE i \in Inked(t, b) : \A j \in Inked(t, b) : j <= i
    IN  SubSeq(t, lo, hi)

\* the entries of t that are not empty after trimming, trimmed, in the order
\* of t
ExpectedTags(t) ==
    LET kept == {b \in EntryOpenings(t) : Inked(t, b) # {}}
    IN  [k \in 1..Cardinality(kept) |->
            Trimmed(t, CHOOSE b \in kept :
                           Cardinality({c \in kept : c <= b}) = k)]

\* C14: for every tech_stack, the techstack a successful store_user_details
\* stores is the sequence of the input's comma-separated entries with
\* surrounding whitespace trimmed, the entries that are empty after trimming
\* dropped, and the order of the others kept.
C14_TechStackParsed ==
    [][StoreReturns =>
          interviews'[interview_id'].techstack = ExpectedTags(given_tech_stack)
      ]_vars

C14_Witness ==
    /\ given_tech_stack = ExampleTechStack
    /\ metadata_complete
    /\ interview_id \in DOMAIN interviews
    /\ interviews[interview_id].techstack =
           <<<<"R", "e", "a", "c", "t">>,
             <<"N", "o", "d", "e">>,
             <<"T", "y", "p", "e", "S", "c", "r", "i", "p", "t">>>>

\* C15: the techstack a successful store_user_details stores is an ordered
\* set: for every tech_stack, those with two entries equal after trimming
\* included, no tag occurs in it more than once.
C15_TechStackHasNoDuplicate ==
    [][StoreReturns =>
          LET tags == interviews'[interview_id'].techstack
          IN  \A i, j \in DOMAIN tags : tags[i] = tags[j] => i = j
      ]_vars

\* C16: mode is fixed at the start of the session: once on_enter has run, no
\* step of a tool call, whether the call returns or raises, changes it.
C16_ModeFixedAfterEnter ==
    [][entered => mode' = mode]_vars

\* all three tools have been served, one call having failed, in a session that
\* on_enter put in the conduct mode
C16_Witness ==
    /\ entered
    /\ room_metadata.mode = "conduct"
    /\ mode = "conduct"
    /\ metadata_complete
    /\ DOMAIN answers # {}
    /\ questions_generated
    /\ posts = 2
    /\ result.tool = GenerationTool
    /\ result.kind = "return"

\* C17: when the endpoint's status is below 400 request_question_generation
\* goes on to its end without raising, and when it returns questionsGenerated
\* is true, questionList is empty, the closing announcement has been made
\* exactly once and the session is closed; in the create-mode scenario (a
\* userId in the metadata, store_user_details, then a 200 response) the
\* session ends with metadataComplete and questionsGenerated both true.
C17_GenerationSuccess ==
    [][/\ (pc = "response" /\ Accepted) =>
              /\ pc' = "say"
              /\ questions_generated'
              /\ question_list' = <<>>
              /\ result' = result
       /\ (pc = "return" /\ pc' # pc) =>
              /\ result' = Returned(GenerationTool,
                     [status |-> "triggered", response |-> response_payload])
              /\ questions_generated'
              /\ question_list' = <<>>
              /\ said' = <<final_message>>
              /\ session_closed'
       /\ (result'.tool = GenerationTool /\ result'.kind = "return"
              /\ result' # result) => pc = "return"
      ]_vars

C17_Witness ==
    /\ room_metadata = [userId |-> "u1", interviewId |-> None, mode |-> None]
    /\ mode = "create"
    /\ interview_id \in AutoIds
    /\ interview_id \in DOMAIN interviews
    /\ metadata_complete
    /\ questions_generated
    /\ question_list = <<>>
    /\ posts = 1
    /\ said = <<final_message>>
    /\ session_closed
    /\ result = Returned(GenerationTool,
           [status |-> "triggered",
            response |-> ParseBody("{\"success\":true}")])

\* the error a failed write of the document store raises
PersistenceFailure == Exception("GoogleAPICallError", "set failed", 0, "")

\* C18: a store_user_details whose write to the document store fails raises
\* the store's error to its caller and leaves SessionState as it was:
\* interviewId is not adopted and metadataComplete keeps its value, so
\* metadataComplete becomes true only with a write that succeeded.
C18_FailedWriteLeavesState ==
    [][/\ \A a \in StoreInputs :
             (/\ store_user_details(a.role, a.level, a.tech_stack,
                                    a.interview_type, a.question_count)
              /\ ~UserIdMissing
              /\ ~StoreReturns) =>
                 /\ result' = Raised("store_user_details", PersistenceFailure)
                 /\ UNCHANGED <<sessionState, store>>
       /\ (metadata_complete' /\ ~metadata_complete) =>
             /\ StoreReturns
             /\ interview_id' \in DOMAIN interviews'
             /\ interviews'[interview_id'].createdAt = now'
      ]_vars

C18_Witness ==
    /\ result = Raised("store_user_details", PersistenceFailure)
    /\ user_id = "u1"
    /\ interview_id = None
    /\ ~metadata_complete
    /\ interviews = <<>>
    /\ now = 0

\* C19: in every reachable state, metadataComplete = true implies that
\* interviewId is set and that the store holds an Interview record under that
\* interviewId whose userId is SessionState.userId.
C19_CompleteMeansStored ==
    metadata_complete =>
        /\ Truthy(interview_id)
        /\ interview_id \in DOMAIN interviews
        /\ interviews[interview_id].userId = user_id

C19_Witness ==
    /\ metadata_complete
    /\ interview_id \in AutoIds
    /\ user_id = "u1"
    /\ DOMAIN interviews = {interview_id}
    /\ interviews[interview_id].userId = "u1"
    /\ now = 2

\* C20: every successful store_user_details writes finalized = false into
\* the Interview record; on an interviewId whose record had been finalized
\* by another writer the flag is false again afterwards.
C20_StoreResetsFinalized ==
    [][StoreReturns =>
          /\ "finalized" \in DOMAIN interviews'[interview_id']
          /\ interviews'[interview_id'].finalized = FALSE
      ]_vars

\* the record finalized before the session (it holds the questions) after a
\* store_user_details of the session
C20_Witness ==
    /\ metadata_complete
    /\ interview_id = "iv1"
    /\ "iv1" \in DOMAIN interviews
    /\ "questions" \in DOMAIN interviews["iv1"]
    /\ interviews["iv1"].finalized = FALSE
    /\ interviews["iv1"].createdAt = now
    /\ now = 1

====
